---- MODULE Spec2Model ----
(***************************************************************************)
(* Model of the Shapr3D export script (src/main.py): metadata resolution   *)
(* against projectStorage.db, construction of the target path, the .shapr  *)
(* archive writer, the embedded-JPEG extractor and the two export loops.   *)
(*                                                                         *)
(* Strings are sequences of one-character strings, byte strings are        *)
(* sequences of integers.  A path below the export root is a record        *)
(* [area, dir, name]: <exportRoot>/<area>/<dir>/<name>.                    *)
(***************************************************************************)
EXTENDS Integers, Sequences, FiniteSets, TLC

VARIABLES
    world,      \* the source tree, the metadata store and the arguments of a run
    dirs,       \* export tree: the folders that exist, [area, dir]
    archives,   \* export tree: archive path -> the archive's entries
    thumbs,     \* export tree: folder -> bytes of its thumbnail.jpg
    phase,      \* where main() is: "idle", "active", "trashed", "done", "crashed"
    remaining,  \* the identifiers the running enumerator has yet to yield, in order
    runs,       \* how many times main() has been started
    log,        \* what the current run did, one record per enumerated project
    snap,       \* the export tree as it was when the current run started
    openConns,  \* store connections that are open
    call,       \* arguments of a single function call (function-level specifications)
    ret         \* what that call returned or wrote

vars == <<world, dirs, archives, thumbs, phase, remaining, runs, log, snap,
          openConns, call, ret>>

None == "None"

----------------------------------------------------------------------------
(* Bounds of the model. *)

MaxLen == 2
MaxData == 5
MaxRuns == 2

----------------------------------------------------------------------------
(* Strings. *)

Chars == {"a", "/", "\\", ":", " ", "_"}
FolderChars == {"f", "/", " ", "_"}

StrsOver(S, n) == UNION {[1..k -> S] : k \in 0..n}

RECURSIVE Digits(_)
Digits(n) ==
    IF n < 10 THEN <<SubSeq(<<"0","1","2","3","4","5","6","7","8","9">>, n + 1, n + 1)[1]>>
    ELSE Digits(n \div 10) \o Digits(n % 10)

\* str(n) of a Python int, as f"{revision}" and json.dumps format it
IntStr(n) == IF n < 0 THEN <<"-">> \o Digits(-n) ELSE Digits(n)

\* str.strip(chars): drop leading and trailing characters that are in cs
RECURSIVE LStrip(_, _)
LStrip(s, cs) ==
    IF s # <<>> /\ Head(s) \in cs THEN LStrip(Tail(s), cs) ELSE s

RECURSIVE RStrip(_, _)
RStrip(s, cs) ==
    IF s # <<>> /\ s[Len(s)] \in cs THEN RStrip(SubSeq(s, 1, Len(s) - 1), cs) ELSE s

Strip(s, cs) == RStrip(LStrip(s, cs), cs)

Whitespace == {" "}

\* sanitize with the drive delimiter left in
sanitizeNoColon(name) ==
    [i \in 1..Len(name) |-> IF name[i] \in {"/", "\\"} THEN "_" ELSE name[i]]

sanitize(name) ==
    [i \in 1..Len(name) |-> IF name[i] \in {"/", "\\", ":"} THEN "_" ELSE name[i]]

Untitled == <<"u","n","t","i","t","l","e","d">>
Ext == <<".","s","h","a","p","r">>
RevSuffix(revision) == <<" ","[","r","e","v","-">> \o IntStr(revision) \o <<"]">>

\* make_zip_name appending the suffix whenever the revision is positive
make_zip_nameAlwaysRev(base_dir, title, folder, revision, add_revision) ==
    LET folder_safe == Strip(sanitize(folder), {" ", "_"})
        title_safe == IF sanitize(title) # <<>> THEN sanitize(title) ELSE Untitled
        out_dir == IF folder_safe # <<>> THEN folder_safe ELSE title_safe
        name == IF revision > 0 THEN title_safe \o RevSuffix(revision) ELSE title_safe
    IN  [area |-> base_dir, dir |-> out_dir, name |-> name \o Ext]

\* The path make_zip_name returns; the caller's action adds [area, dir] to dirs
\* (ensure_dir(out_dir)).
make_zip_name(base_dir, title, folder, revision, add_revision) ==
    LET folder_safe == Strip(sanitize(folder), {" ", "_"})
        title_safe == IF sanitize(title) # <<>> THEN sanitize(title) ELSE Untitled
        out_dir == IF folder_safe # <<>> THEN folder_safe ELSE title_safe
        name == IF add_revision /\ revision > 0
                THEN title_safe \o RevSuffix(revision) ELSE title_safe
    IN  [area |-> base_dir, dir |-> out_dir, name |-> name \o Ext]

OutDir(path) == [area |-> path.area, dir |-> path.dir]

----------------------------------------------------------------------------
(* extract_jpg_image *)

FF == 255
D8 == 216
D9 == 217

Bytes == {0, FF, D8, D9}

Min(S) == CHOOSE x \in S : \A y \in S : x <= y

\* bytes.find(<<a, b>>, from): the first index >= from where the two bytes
\* stand, 0 when there is none (indices are 1-based; Python's -1 is 0 here)
Find(data, a, b, from) ==
    LET hits == {i \in from..(Len(data) - 1) : data[i] = a /\ data[i + 1] = b}
    IN  IF hits = {} THEN 0 ELSE Min(hits)

\* extract_jpg_image cutting before the end marker (end += len(jpg_end) left out)
extract_jpg_imageNoEnd(data) ==
    LET start == Find(data, FF, D8, 1)
        end == IF start = 0 THEN 0 ELSE Find(data, FF, D9, start)
    IN  IF start = 0 \/ end = 0
        THEN [wrote |-> FALSE, bytes |-> <<>>]
        ELSE [wrote |-> TRUE, bytes |-> SubSeq(data, start, end - 1)]

\* What extract_jpg_image does with a source holding `data`: whether it writes
\* dst, and the bytes it writes.
extract_jpg_image(data) ==
    LET start == Find(data, FF, D8, 1)
        end == IF start = 0 THEN 0 ELSE Find(data, FF, D9, start)
    IN  IF start = 0 \/ end = 0
        THEN [wrote |-> FALSE, bytes |-> <<>>]
        ELSE [wrote |-> TRUE, bytes |-> SubSeq(data, start, end + 1)]

----------------------------------------------------------------------------
(* The metadata store and read_project_meta.                               *)
(* A store is [openable, valid, rows]: whether sqlite3.connect succeeds,   *)
(* the candidates whose query the schema accepts, and the rows by          *)
(* projectID.  A column value is {} for NULL and {v} for the value v; a    *)
(* thumbnail reference is a string, None for NULL.                         *)

Candidates == <<"Projects", "projects">>

open_db(store) == IF store.openable THEN "conn" ELSE None

\* The SELECT of read_project_meta under one candidate: None when the query
\* fails or returns no row, else the row with IFNULL applied.
first_row(store, table, project_id) ==
    IF table \in store.valid /\ project_id \in DOMAIN store.rows
    THEN LET r == store.rows[project_id]
         IN  {[title |-> IF r.title = {} THEN project_id ELSE CHOOSE t \in r.title : TRUE,
               folder |-> IF r.folder = {} THEN <<>> ELSE CHOOSE f \in r.folder : TRUE,
               revision |-> IF r.revision = {} THEN 0 ELSE CHOOSE n \in r.revision : TRUE,
               th_light |-> r.th_light,
               th_dark |-> r.th_dark]}
    ELSE {}

Falsy(s) == s = None \/ s = ""

DefaultMeta(project_id) ==
    [project_id |-> project_id, title |-> project_id, folder |-> <<>>,
     revision_id |-> 0, thumb_rel |-> None]

MetaOfRow(project_id, row) ==
    LET t1 == IF row.title = <<>> THEN project_id ELSE row.title
        t2 == Strip(t1, Whitespace)
    IN  [project_id |-> project_id,
         title |-> IF t2 = <<>> THEN project_id ELSE t2,
         folder |-> row.folder,
         revision_id |-> row.revision,
         thumb_rel |-> IF Falsy(row.th_dark) THEN row.th_light ELSE row.th_dark]

\* read_project_meta falling back to an empty title instead of the identifier
read_project_metaNoTitle(store, project_id) ==
    LET conn == open_db(store)
        r1 == first_row(store, Candidates[1], project_id)
        row == IF r1 # {} THEN r1 ELSE first_row(store, Candidates[2], project_id)
        dflt == [DefaultMeta(project_id) EXCEPT !.title = <<>>]
    IN  IF conn = None
        THEN [meta |-> dflt, opened |-> 0, closed |-> 0]
        ELSE [meta |-> IF row = {} THEN dflt
                       ELSE MetaOfRow(project_id, CHOOSE r \in row : TRUE),
              opened |-> 1, closed |-> 1]

\* read_project_meta: the ProjectMeta it returns, and the connections it
\* opened and closed on the way.
read_project_meta(store, project_id) ==
    LET conn == open_db(store)
        r1 == first_row(store, Candidates[1], project_id)
        row == IF r1 # {} THEN r1 ELSE first_row(store, Candidates[2], project_id)
    IN  IF conn = None
        THEN [meta |-> DefaultMeta(project_id), opened |-> 0, closed |-> 0]
        ELSE [meta |-> IF row = {} THEN DefaultMeta(project_id)
                       ELSE MetaOfRow(project_id, CHOOSE r \in row : TRUE),
              opened |-> 1, closed |-> 1]

----------------------------------------------------------------------------
(* build_metadata and write_shapr_zip.                                     *)
(* An archive is the sequence of its entries [name, data].  The .metadata  *)
(* entry is the JSON object as the sequence of its members [key, val],     *)
(* each value in its JSON text.                                            *)

\* json.dumps of a string: quoted, with the quote and the backslash escaped
RECURSIVE JsonEscape(_)
JsonEscape(s) ==
    IF s = <<>> THEN <<>>
    ELSE (IF Head(s) \in {"\"", "\\"} THEN <<"\\", Head(s)>> ELSE <<Head(s)>>)
         \o JsonEscape(Tail(s))

JsonStr(s) == <<"\"">> \o JsonEscape(s) \o <<"\"">>

\* build_metadata writing a changed-count of 1
build_metadataDirty(project_id, revision) ==
    << [key |-> "remoteID", val |-> JsonStr(project_id)],
       [key |-> "revisionID", val |-> IntStr(revision)],
       [key |-> "localChangeCount", val |-> IntStr(1)] >>

build_metadata(project_id, revision) ==
    << [key |-> "remoteID", val |-> JsonStr(project_id)],
       [key |-> "revisionID", val |-> IntStr(revision)],
       [key |-> "localChangeCount", val |-> IntStr(0)] >>

\* write_shapr_zip on a target that can (creatable) or cannot be created and a
\* workspace file ws = [readable, data]: whether it raised, whether the target
\* file is on disk afterwards, and the entries it holds.  ZipFile creates the
\* target on opening it and closes it (two entries written) when zf.write
\* raises.
write_shapr_zip(creatable, ws, project_id, revision) ==
    LET head == << [name |-> ".export_log", data |-> <<>>],
                   [name |-> ".metadata", data |-> build_metadata(project_id, revision)] >>
    IN  IF ~creatable
        THEN [raised |-> TRUE, created |-> FALSE, entries |-> <<>>]
        ELSE IF ~ws.readable
        THEN [raised |-> TRUE, created |-> TRUE, entries |-> head]
        ELSE [raised |-> FALSE, created |-> TRUE,
              entries |-> head \o << [name |-> "workspace", data |-> ws.data] >>]

----------------------------------------------------------------------------
(* save_thumbnail_if_any: resources maps the names under the resources     *)
(* folder to [readable, data].                                             *)

save_thumbnail_if_any(resources, thumb_rel) ==
    IF Falsy(thumb_rel) \/ thumb_rel \notin DOMAIN resources
    THEN [wrote |-> FALSE, bytes |-> <<>>]
    ELSE IF ~resources[thumb_rel].readable
    THEN [wrote |-> FALSE, bytes |-> <<>>]
    ELSE extract_jpg_image(resources[thumb_rel].data)

----------------------------------------------------------------------------
(* The target of one project in each export loop. *)

TempPrefix == <<"T","e","m","p","_">>

\* export_active_projects: the make_zip_name call
active_target(meta, add_revision) ==
    make_zip_name("Current", meta.title, meta.folder, meta.revision_id, add_revision)

\* export_tempstate_projects: the relabelled title, the revision forced to 0
\* without add_revision, and the make_zip_name call
tempstate_target(meta, guid, add_revision) ==
    LET title == IF meta.title # guid THEN meta.title ELSE TempPrefix \o guid
        revision == meta.revision_id
    IN  make_zip_name("Trashed", title, meta.folder,
                      IF add_revision THEN revision ELSE 0, add_revision)

----------------------------------------------------------------------------
(* Function-level specifications: Init draws the arguments of one call,    *)
(* the action makes the call and records what it returned.  The export     *)
(* tree and the run are idle in them.                                      *)

Idle ==
    /\ world = <<>>
    /\ dirs = {}
    /\ archives = <<>>
    /\ thumbs = <<>>
    /\ phase = "idle"
    /\ remaining = <<>>
    /\ runs = 0
    /\ log = <<>>
    /\ snap = <<>>
    /\ openConns = 0

NoRet == [fn |-> "none"]

Revs == {-1, 0, 1, 3, 12}

\* sanitize, make_zip_name and the two loops' use of it
InitName ==
    /\ Idle
    /\ call \in [title : StrsOver(Chars, MaxLen), folder : StrsOver(FolderChars, MaxLen),
                 revision : Revs, add_revision : BOOLEAN]
    /\ ret = NoRet

NameGuid == <<"a">>

CallMeta ==
    [project_id |-> NameGuid, title |-> call.title, folder |-> call.folder,
     revision_id |-> call.revision, thumb_rel |-> None]

CallSanitize ==
    /\ ret = NoRet
    /\ ret' = [fn |-> "sanitize", out |-> sanitize(call.title)]
    /\ UNCHANGED <<world, dirs, archives, thumbs, phase, remaining, runs, log, snap,
                   openConns, call>>

CallMakeZipName ==
    /\ ret = NoRet
    /\ LET path == active_target(CallMeta, call.add_revision)
       IN  /\ ret' = [fn |-> "make_zip_name", path |-> path]
           /\ dirs' = dirs \cup {OutDir(path)}
    /\ UNCHANGED <<world, archives, thumbs, phase, remaining, runs, log, snap,
                   openConns, call>>

CallTempstateTarget ==
    /\ ret = NoRet
    /\ LET path == tempstate_target(CallMeta, NameGuid, call.add_revision)
       IN  /\ ret' = [fn |-> "tempstate_target", path |-> path]
           /\ dirs' = dirs \cup {OutDir(path)}
    /\ UNCHANGED <<world, archives, thumbs, phase, remaining, runs, log, snap,
                   openConns, call>>

NextName == CallSanitize \/ CallMakeZipName \/ CallTempstateTarget

SpecName == InitName /\ [][NextName]_vars

\* extract_jpg_image
InitJpg ==
    /\ Idle
    /\ call \in [data : StrsOver(Bytes, MaxData)]
    /\ ret = NoRet

CallExtractJpgImage ==
    /\ ret = NoRet
    /\ ret' = [fn |-> "extract_jpg_image", res |-> extract_jpg_image(call.data)]
    /\ UNCHANGED <<world, dirs, archives, thumbs, phase, remaining, runs, log, snap,
                   openConns, call>>

NextJpg == CallExtractJpgImage

SpecJpg == InitJpg /\ [][NextJpg]_vars

\* read_project_meta
MetaIds == {<<"a">>, <<"b">>}

MetaRows ==
    [title : {{}, {<<" ">>}, {<<"x">>}}, folder : {{}, {<<"f">>}}, revision : {{}, {2}},
     th_light : {None, "l"}, th_dark : {None, "d"}]

MetaStores ==
    [openable : BOOLEAN, valid : SUBSET {Candidates[1], Candidates[2]},
     rows : {<<>>} \cup UNION {[{i} -> MetaRows] : i \in MetaIds}]

InitMeta ==
    /\ Idle
    /\ call \in [store : MetaStores, project_id : MetaIds]
    /\ ret = NoRet

CallReadProjectMeta ==
    /\ ret = NoRet
    /\ LET r == read_project_meta(call.store, call.project_id)
       IN  /\ ret' = [fn |-> "read_project_meta", meta |-> r.meta]
           /\ openConns' = openConns + r.opened - r.closed
    /\ UNCHANGED <<world, dirs, archives, thumbs, phase, remaining, runs, log, snap, call>>

NextMeta == CallReadProjectMeta

SpecMeta == InitMeta /\ [][NextMeta]_vars

\* write_shapr_zip
ZipTarget == [area |-> "Current", dir |-> <<"a">>, name |-> <<"a">> \o Ext]

InitZip ==
    /\ Idle
    /\ call \in [creatable : BOOLEAN,
                 ws : [readable : BOOLEAN, data : StrsOver({0, FF}, MaxLen)],
                 project_id : StrsOver({"p", "\"", "\\"}, MaxLen),
                 revision : Revs \ {-1}]
    /\ ret = NoRet

CallWriteShaprZip ==
    /\ ret = NoRet
    /\ LET w == write_shapr_zip(call.creatable, call.ws, call.project_id, call.revision)
       IN  /\ ret' = [fn |-> "write_shapr_zip", raised |-> w.raised]
           /\ archives' = IF w.created THEN (ZipTarget :> w.entries) ELSE archives
    /\ UNCHANGED <<world, dirs, thumbs, phase, remaining, runs, log, snap, openConns, call>>

NextZip == CallWriteShaprZip

SpecZip == InitZip /\ [][NextZip]_vars

----------------------------------------------------------------------------
(* Claims about single functions. *)

BadChars == {"/", "\\", ":"}

NoBadChar(s) == \A i \in 1..Len(s) : s[i] \notin BadChars

\* C10: sanitize returns a string of the same length with every '/', '\' and
\* ':' replaced by '_' and every other character kept in place, and neither
\* the folder name nor the file name make_zip_name builds holds one of the three.
C10_SanitizeSafe ==
    /\ ret.fn = "sanitize" =>
          /\ Len(ret.out) = Len(call.title)
          /\ NoBadChar(ret.out)
          /\ \A i \in 1..Len(call.title) :
                ret.out[i] = IF call.title[i] \in BadChars THEN "_" ELSE call.title[i]
    /\ ret.fn \in {"make_zip_name", "tempstate_target"} =>
          /\ NoBadChar(ret.path.dir)
          /\ NoBadChar(ret.path.name)
          /\ ret.path.dir # <<>>

\* a title and a folder that both hold path-breaking characters went through
\* make_zip_name
C10_Witness ==
    /\ ret.fn = "make_zip_name"
    /\ call.title = <<":", "\\">>
    /\ call.folder = <<"/", "f">>
    /\ ret.path.dir = <<"f">>
    /\ ret.path.name = <<"_", "_">> \o Ext

EndsWith(s, t) == Len(s) >= Len(t) /\ SubSeq(s, Len(s) - Len(t) + 1, Len(s)) = t

\* the file name without the archive extension
Stem(name) == SubSeq(name, 1, Len(name) - Len(Ext))

TitleSafe(title) == IF title = <<>> THEN Untitled ELSE sanitize(title)

\* the title export_tempstate_projects hands to make_zip_name
TempTitle == IF call.title # NameGuid THEN call.title ELSE TempPrefix \o NameGuid

\* C9: the file name is the sanitized title followed by ' [rev-N]' exactly when
\* add_revision is set and the revision N is positive, and by nothing otherwise;
\* a trashed project exported without add_revision gets no suffix whatever
\* revision the store reports.
C9_RevisionSuffix ==
    /\ ret.fn \in {"make_zip_name", "tempstate_target"} => EndsWith(ret.path.name, Ext)
    /\ ret.fn = "make_zip_name" =>
          /\ (call.add_revision /\ call.revision > 0) =>
                Stem(ret.path.name) = TitleSafe(call.title) \o RevSuffix(call.revision)
          /\ ~(call.add_revision /\ call.revision > 0) =>
                Stem(ret.path.name) = TitleSafe(call.title)
    /\ ret.fn = "tempstate_target" =>
          /\ (call.add_revision /\ call.revision > 0) =>
                Stem(ret.path.name) = TitleSafe(TempTitle) \o RevSuffix(call.revision)
          /\ ~(call.add_revision /\ call.revision > 0) =>
                /\ Stem(ret.path.name) = TitleSafe(TempTitle)
                /\ \A n \in Revs : ~EndsWith(Stem(ret.path.name), RevSuffix(n))

\* a trashed project with revision 3 in the store, named without add_revision
C9_Witness ==
    /\ ret.fn = "tempstate_target"
    /\ ~call.add_revision
    /\ call.revision = 3
    /\ call.title = <<"a", ":">>
    /\ ret.path.name = <<"a", "_">> \o Ext

IsMarker(data, i, b) == i >= 1 /\ i < Len(data) /\ data[i] = FF /\ data[i + 1] = b

\* s is where the first start marker stands, e where the first end marker at or
\* after it stands
FirstStart(data, s) == IsMarker(data, s, D8) /\ \A j \in 1..(s - 1) : ~IsMarker(data, j, D8)

FirstEnd(data, s, e) ==
    e >= s /\ IsMarker(data, e, D9) /\ \A j \in s..(e - 1) : ~IsMarker(data, j, D9)

AbsentFromStore(store, project_id) ==
    \/ ~store.openable
    \/ store.valid = {}
    \/ project_id \notin DOMAIN store.rows

\* C6: for an identifier with no row under any candidate (the store not
\* openable or without the table included) read_project_meta returns the
\* identifier as title, an empty folder, revision 0 and no thumbnail, and no
\* store connection is left open when it has returned.
C6_DefaultMeta ==
    ret.fn = "read_project_meta" =>
        /\ openConns = 0
        /\ AbsentFromStore(call.store, call.project_id) =>
              /\ ret.meta.project_id = call.project_id
              /\ ret.meta.title = call.project_id
              /\ ret.meta.folder = <<>>
              /\ ret.meta.revision_id = 0
              /\ ret.meta.thumb_rel = None

\* the store opens and holds a row, but for another identifier
C6_Witness ==
    /\ ret.fn = "read_project_meta"
    /\ call.store.openable
    /\ call.store.valid = {Candidates[2]}
    /\ call.project_id = <<"a">>
    /\ DOMAIN call.store.rows = {<<"b">>}
    /\ ret.meta.title = <<"a">>

\* json.loads of a JSON string: the text between the quotes, escapes undone
RECURSIVE JsonUnescape(_)
JsonUnescape(s) ==
    IF s = <<>> THEN <<>>
    ELSE IF Head(s) = "\\" /\ Len(s) >= 2 THEN <<s[2]>> \o JsonUnescape(Tail(Tail(s)))
    ELSE <<Head(s)>> \o JsonUnescape(Tail(s))

JsonLoadsStr(v) == JsonUnescape(SubSeq(v, 2, Len(v) - 1))

DigitVal(c) == CHOOSE d \in 0..9 : Digits(d) = <<c>>

RECURSIVE JsonLoadsNat(_)
JsonLoadsNat(v) ==
    IF Len(v) = 1 THEN DigitVal(v[1])
    ELSE 10 * JsonLoadsNat(SubSeq(v, 1, Len(v) - 1)) + DigitVal(v[Len(v)])

\* C7: an archive write_shapr_zip returns from normally holds exactly three
\* entries in this order: '.export_log' with no bytes, '.metadata' whose object
\* has exactly the fields remoteID (the identifier), revisionID (the revision
\* passed in) and localChangeCount (0), and 'workspace' with the bytes of the
\* workspace file.
C7_ArchiveLayout ==
    (ret.fn = "write_shapr_zip" /\ ~ret.raised) =>
        /\ ZipTarget \in DOMAIN archives
        /\ LET e == archives[ZipTarget]
           IN  /\ Len(e) = 3
               /\ e[1].name = ".export_log" /\ e[1].data = <<>>
               /\ e[2].name = ".metadata"
               /\ Len(e[2].data) = 3
               /\ e[2].data[1].key = "remoteID"
               /\ JsonLoadsStr(e[2].data[1].val) = call.project_id
               /\ e[2].data[2].key = "revisionID"
               /\ JsonLoadsNat(e[2].data[2].val) = call.revision
               /\ e[2].data[3].key = "localChangeCount"
               /\ JsonLoadsNat(e[2].data[3].val) = 0
               /\ e[3].name = "workspace" /\ e[3].data = call.ws.data

\* an identifier that needs escaping, revision 12, a two-byte workspace
C7_Witness ==
    /\ ret.fn = "write_shapr_zip"
    /\ ~ret.raised
    /\ call.project_id = <<"p", "\"">>
    /\ call.revision = 12
    /\ call.ws.data = <<FF, 0>>
    /\ Len(archives[ZipTarget]) = 3

----------------------------------------------------------------------------
(* Export runs: main() started up to MaxRuns times against one source.     *)
(* world = [store, resources, ws, active, trashed, fault, add_revision,    *)
(* include_tempstate, tempstate_exists].  active and trashed are the       *)
(* identifiers in the order iterdir() yields them, the same in every run   *)
(* against the unchanged source.  fault names the workspace file that      *)
(* cannot be read ("read") or the project whose target cannot be created   *)
(* ("create"), if any.                                                     *)

P == <<"p">>
Q == <<"q">>
T == <<"t">>

Row(title, folder, revision, th_dark) ==
    [title |-> {title}, folder |-> {folder}, revision |-> {revision},
     th_light |-> None, th_dark |-> th_dark]

StoreRevs == {0, 2}

PRows == {Row(<<"a">>, fo, rv, th) : fo \in {<<>>, <<"f">>}, rv \in StoreRevs, th \in {None, "r"}}
QRows == {Row(ti, fo, rv, None) : ti \in {<<"a">>, <<"b">>}, fo \in {<<>>, <<"f">>}, rv \in StoreRevs}
TRows == {Row(<<"a">>, <<"f">>, rv, "r") : rv \in StoreRevs}

\* the rows of the store: any of the three projects may have none
StoreRows ==
    {rp @@ rq @@ rt : rp \in {<<>>} \cup {P :> r : r \in PRows},
                      rq \in {<<>>} \cup {Q :> r : r \in QRows},
                      rt \in {<<>>} \cup {T :> r : r \in TRows}}

Jpeg == <<0, FF, D8, FF, D9>>

Workspaces == (P :> <<1>>) @@ (Q :> <<2>>) @@ (T :> <<3>>)

NoFault == [id |-> <<>>, kind |-> "none"]

Worlds ==
    {w \in [store : [openable : {TRUE}, valid : {{Candidates[1], Candidates[2]}}, rows : StoreRows],
            resources : {"r" :> [readable |-> rd, data |-> Jpeg] : rd \in BOOLEAN},
            ws : {Workspaces},
            active : {<<P, Q>>, <<Q, P>>},
            trashed : {<<T>>},
            fault : {NoFault} \cup [id : {P, Q, T}, kind : {"create", "read"}],
            add_revision : BOOLEAN,
            include_tempstate : BOOLEAN,
            tempstate_exists : BOOLEAN] :
        \* what a run never reads is held fixed
        /\ ~w.include_tempstate => w.tempstate_exists
        /\ ~(w.include_tempstate /\ w.tempstate_exists) =>
              (T \notin DOMAIN w.store.rows /\ w.fault.id # T)
        /\ (\A i \in DOMAIN w.store.rows : w.store.rows[i].th_dark = None) =>
              w.resources["r"].readable}

Init ==
    /\ world \in Worlds
    /\ dirs = {}
    /\ archives = <<>>
    /\ thumbs = <<>>
    /\ phase = "idle"
    /\ remaining = <<>>
    /\ runs = 0
    /\ log = <<>>
    /\ snap = [dirs |-> {}, archives |-> <<>>, thumbs |-> <<>>]
    /\ openConns = 0
    /\ call = <<>>
    /\ ret = NoRet

AreaDir(area) == [area |-> area, dir |-> <<>>]

\* the skip test that never finds the target (the check left out)
target_existsNever(files, target) == FALSE

\* target.exists()
target_exists(files, target) == target \in DOMAIN files

\* the workspace file of a project as write_shapr_zip finds it
WsFile(id) ==
    [readable |-> world.fault # [id |-> id, kind |-> "read"], data |-> world.ws[id]]

Creatable(id) == world.fault # [id |-> id, kind |-> "create"]

\* main() up to the first iteration of export_active_projects
StartRun ==
    /\ phase \in {"idle", "done", "crashed"}
    /\ runs < MaxRuns
    /\ runs' = runs + 1
    /\ phase' = "active"
    /\ dirs' = dirs \cup {AreaDir("Current")}
    /\ remaining' = world.active
    /\ log' = <<>>
    /\ snap' = [dirs |-> dirs, archives |-> archives, thumbs |-> thumbs]
    /\ UNCHANGED <<world, archives, thumbs, openConns, call, ret>>

\* one iteration of the loop of export_active_projects
ExportActive ==
    /\ phase = "active"
    /\ remaining # <<>>
    /\ remaining' = Tail(remaining)
    /\ LET id == Head(remaining)
           r == read_project_meta(world.store, id)
           meta == r.meta
           target == active_target(meta, world.add_revision)
           w == write_shapr_zip(Creatable(id), WsFile(id), meta.project_id, meta.revision_id)
           t == save_thumbnail_if_any(world.resources, meta.thumb_rel)
           entry == [id |-> id, area |-> "Current", target |-> target]
       IN  /\ openConns' = openConns + r.opened - r.closed
           /\ dirs' = dirs \cup {OutDir(target)}
           /\ IF target_exists(archives, target)
              THEN /\ log' = Append(log, entry @@ [ev |-> "skip", thumb |-> FALSE])
                   /\ UNCHANGED <<archives, thumbs, phase>>
              ELSE /\ archives' = IF w.created THEN (target :> w.entries) @@ archives
                                  ELSE archives
                   /\ IF w.raised
                      THEN /\ phase' = "crashed"
                           /\ log' = Append(log, entry @@ [ev |-> "failed", thumb |-> FALSE])
                           /\ UNCHANGED thumbs
                      ELSE /\ thumbs' = IF t.wrote THEN (OutDir(target) :> t.bytes) @@ thumbs
                                        ELSE thumbs
                           /\ log' = Append(log, entry @@ [ev |-> "export", thumb |-> t.wrote])
                           /\ UNCHANGED phase
    /\ UNCHANGED <<world, runs, snap, call, ret>>

\* the end of export_active_projects, and main() up to the first iteration of
\* export_tempstate_projects or to "Done."
FinishActive ==
    /\ phase = "active"
    /\ remaining = <<>>
    /\ IF world.include_tempstate /\ world.tempstate_exists
       THEN /\ phase' = "trashed"
            /\ remaining' = world.trashed
            /\ dirs' = dirs \cup {AreaDir("Trashed")}
       ELSE /\ phase' = "done"
            /\ UNCHANGED <<remaining, dirs>>
    /\ UNCHANGED <<world, archives, thumbs, runs, log, snap, openConns, call, ret>>

\* one iteration of the loop of export_tempstate_projects
ExportTempstate ==
    /\ phase = "trashed"
    /\ remaining # <<>>
    /\ remaining' = Tail(remaining)
    /\ LET guid == Head(remaining)
           r == read_project_meta(world.store, guid)
           meta == r.meta
           target == tempstate_target(meta, guid, world.add_revision)
           w == write_shapr_zip(Creatable(guid), WsFile(guid), guid, meta.revision_id)
           entry == [id |-> guid, area |-> "Trashed", target |-> target]
       IN  /\ openConns' = openConns + r.opened - r.closed
           /\ dirs' = dirs \cup {OutDir(target)}
           /\ IF target_exists(archives, target)
              THEN /\ log' = Append(log, entry @@ [ev |-> "skip", thumb |-> FALSE])
                   /\ UNCHANGED <<archives, phase>>
              ELSE /\ archives' = IF w.created THEN (target :> w.entries) @@ archives
                                  ELSE archives
                   /\ IF w.raised
                      THEN /\ phase' = "crashed"
                           /\ log' = Append(log, entry @@ [ev |-> "failed", thumb |-> FALSE])
                      ELSE /\ log' = Append(log, entry @@ [ev |-> "export", thumb |-> FALSE])
                           /\ UNCHANGED phase
    /\ UNCHANGED <<world, thumbs, runs, snap, call, ret>>

\* the end of export_tempstate_projects and of main()
FinishTempstate ==
    /\ phase = "trashed"
    /\ remaining = <<>>
    /\ phase' = "done"
    /\ UNCHANGED <<world, dirs, archives, thumbs, remaining, runs, log, snap, openConns,
                   call, ret>>

Next ==
    \/ StartRun
    \/ ExportActive
    \/ FinishActive
    \/ ExportTempstate
    \/ FinishTempstate

Spec == Init /\ [][Next]_vars

----------------------------------------------------------------------------
(* Claims about export runs. *)

\* the projects the enumerators of one run yield
Enumerated ==
    {world.active[i] : i \in 1..Len(world.active)} \cup
        (IF world.include_tempstate /\ world.tempstate_exists
         THEN {world.trashed[i] : i \in 1..Len(world.trashed)} ELSE {})

Attempted == {log[i].id : i \in 1..Len(log)}

RunOver == phase \in {"done", "crashed"}

\* C1: a failed archive write is confined to its project: when the run is
\* over, every project the enumerators yield has been attempted.
C1_FailureConfined == RunOver => Enumerated \subseteq Attempted

\* C2: a second run against the same source and store writes no archive and
\* no thumbnail, leaves the export tree as the first run left it, and, once
\* finished, has reported every project's target as existing.
C2_SecondRunIdle ==
    runs >= 2 =>
        /\ \A i \in 1..Len(log) : log[i].ev # "export"
        /\ archives = snap.archives
        /\ thumbs = snap.thumbs
        /\ RunOver => dirs = snap.dirs
        /\ phase = "done" =>
              \A id \in Enumerated : \E i \in 1..Len(log) : log[i].id = id /\ log[i].ev = "skip"

ArchivesIn(d) == {a \in DOMAIN archives : OutDir(a) = d}

\* C3: no folder of the export tree holds more than one archive.
C3_OneArchivePerFolder == \A d \in dirs : Cardinality(ArchivesIn(d)) <= 1

\* C4: in both loops, an exported project's thumbnail is extracted into the
\* archive's folder after the archive is written, whenever its metadata names
\* a resource with an embedded image.
C4_ThumbnailBothLoops ==
    \A i \in 1..Len(log) :
        log[i].ev = "export" =>
            LET meta == read_project_meta(world.store, log[i].id).meta
            IN  save_thumbnail_if_any(world.resources, meta.thumb_rel).wrote =>
                    /\ log[i].thumb
                    /\ OutDir(log[i].target) \in DOMAIN thumbs

\* the target the running loop computes for a project
TargetOf(id) ==
    LET meta == read_project_meta(world.store, id).meta
    IN  IF phase = "active" THEN active_target(meta, world.add_revision)
        ELSE tempstate_target(meta, id, world.add_revision)

Writes(l, target) == {i \in 1..Len(l) : l[i].target = target /\ l[i].ev # "skip"}

\* C5: a project whose target exists when it is processed is skipped whole: no
\* archive and no thumbnail is written and the files in the tree keep their
\* bytes; so no target is written twice in one run.
C5_SkipExisting ==
    [][/\ (/\ remaining # <<>>
            /\ remaining' = Tail(remaining)
            /\ TargetOf(Head(remaining)) \in DOMAIN archives) =>
                  /\ archives' = archives
                  /\ thumbs' = thumbs
                  /\ phase' = phase
                  /\ log'[Len(log')].ev = "skip"
        /\ \A i \in 1..Len(log') : Cardinality(Writes(log', log'[i].target)) <= 1]_vars

\* two active projects with the same folder, title and revision: the first is
\* archived, the second is skipped
C5_Witness ==
    /\ runs = 1
    /\ Len(log) = 2
    /\ log[1].ev = "export"
    /\ log[2].ev = "skip"
    /\ log[1].id # log[2].id
    /\ log[1].target = log[2].target
    /\ archives[log[1].target][3].data = world.ws[log[1].id]

====
